---- MODULE Spec2Model ----
(***************************************************************************)
(* A model of pixel_loop.rs: the fixed-timestep loop (PixelLoop::new,      *)
(* PixelLoop::next_loop, run) and the drawing surface (DrawingSurface's    *)
(* default methods over PixelsSurface's buffer primitives).                *)
(*                                                                         *)
(* Durations and instants are integers counting nanoseconds.  The update   *)
(* and render callbacks are supplied by the application: the model calls   *)
(* them and lets each call either succeed or fail.                         *)
(***************************************************************************)
EXTENDS Integers, Sequences, FiniteSets, TLC

\* ------------------------------------------------------------------ bounds

\* next_loop is called at most MaxTicks times in a run of the model.
MaxTicks == 4

\* The surfaces of the model are 1..MaxWidth pixels wide and 1..MaxHeight
\* pixels high, and at most MaxOps operations are applied to one.
MaxWidth == 3
MaxHeight == 2
MaxOps == 1
MaxEvents == 3

\* ------------------------------------------------------- program constants

\* Duration::from_millis(100), in nanoseconds.
DtCeiling == 100000000

\* The numerator of the timestep, 1_000_000_000f64 nanoseconds.
NanosPerSecond == 1000000000

\* The update rates PixelLoop::new is constructed with: 120 is the rate of
\* run and run_with_tao_and_pixels, 0 is the rejected one, 7 and 30 give a
\* timestep above and below the ceiling, rounded up and down, and 1024 one
\* that lies halfway between two nanoseconds.
UpdateFpsChoices == {0, 7, 30, 120, 1024}

\* An observation that may be missing: None, or Some(v) holding v.
None == <<>>
Some(v) == <<v>>
Val(o) == o[1]

VARIABLES
    \* PixelLoop's fields
    accumulator, current_time, last_time, update_timestep,
    \* next_loop's local dt and the place control is at
    dt, pc,
    \* observations of the current tick, reset when a tick begins
    elapsed,        \* the real time between the previous tick and this one
    entry_acc,      \* the accumulator when the tick began
    calls,          \* the callbacks invoked in this tick, in order
    render_dt,      \* the Duration handed to render
    render_acc,     \* the accumulator when render was invoked
    added,          \* the Duration added to the accumulator (line 75)
    result,         \* what the last next_loop returned
    ticks,          \* how many times next_loop was called
    given_fps,      \* the update_fps PixelLoop::new was called with
    total_dt,       \* the clamped dt of every tick whose render succeeded
    total_updates,  \* how many update calls have succeeded
    \* the PixelsSurface: the texture's size and pixels.frame(), 4 bytes a
    \* pixel, byte offset i at frame[i + 1]
    width, height, frame,
    surface_pc,     \* "ready", or "panicked" once an operation has panicked
    \* observations of the last surface operation
    op,             \* its name and arguments
    prev_frame,     \* the frame before it
    set_ranges,     \* the set_range calls it issued, in order
    op_result,      \* what it returned
    ops,            \* how many operations were applied
    \* the last call of a Color constructor and the Color it returned
    color_call, color_made,
    \* run_with_tao_and_pixels: the event the closure was called with, the
    \* place the closure is at, and *control_flow
    event, host_pc, control_flow,
    \* observations of the closure
    handled,        \* the event handle_event was called with, if it was
    tick_mark,      \* the value of ticks when the event was delivered
    events          \* how many events the host has delivered

loop_vars == <<accumulator, current_time, last_time, update_timestep, dt, pc,
               elapsed, entry_acc, calls, render_dt, render_acc, added,
               result, ticks, given_fps, total_dt, total_updates>>

surface_vars == <<width, height, frame, surface_pc, op, prev_frame,
                  set_ranges, op_result, ops>>

color_vars == <<color_call, color_made>>

host_vars == <<event, host_pc, control_flow, handled, tick_mark, events>>

\* What the loop's steps leave alone.
outside_loop_vars == <<surface_vars, color_vars, host_vars>>

vars == <<loop_vars, surface_vars, color_vars, host_vars>>

\* --------------------------------------------------------- PixelLoop::new

\* A slip of the timestep: the quotient is truncated, not rounded.
TimestepNanosTruncated(update_fps) == NanosPerSecond \div update_fps

\* (1_000_000_000f64 / update_fps as f64).round() as u64: f64::round rounds
\* half away from zero, which for a positive quotient is floor(q + 1/2).
TimestepNanos(update_fps) ==
    (2 * NanosPerSecond + update_fps) \div (2 * update_fps)

\* The constructor: panics on a zero rate, else the fields of the new loop.
\* current_time is read from the clock before last_time is.
New(update_fps, now, later) ==
    IF update_fps = 0
    THEN /\ pc = "panicked"
         /\ given_fps = update_fps
         /\ accumulator = 0
         /\ current_time = 0
         /\ last_time = 0
         /\ update_timestep = 0
    ELSE /\ pc = "idle"
         /\ given_fps = update_fps
         /\ accumulator = 0
         /\ current_time = now
         /\ last_time = later
         /\ update_timestep = TimestepNanos(update_fps)

\* No tick has run: next_loop's observations are empty.
NoTickYet ==
    /\ dt = 0
    /\ elapsed = 0
    /\ entry_acc = 0
    /\ calls = <<>>
    /\ render_dt = None
    /\ render_acc = None
    /\ added = None
    /\ result = "none"
    /\ ticks = 0
    /\ total_dt = 0
    /\ total_updates = 0

\* The loop is constructed by run or run_with_tao_and_pixels (or, for the
\* rates other than 120, as PixelLoop::new allows).
LoopInit ==
    /\ \E update_fps \in UpdateFpsChoices, gap \in {0, 1} :
           New(update_fps, 0, gap)
    /\ NoTickYet

\* ------------------------------------------------------------------ Color

\* Color::from_rgba(r, b, g, a): the parameters are declared in the order
\* r, b, g, a and stored as [r, g, b, a], so the second and third arguments
\* of a call change places.
FromRgba(arg1, arg2, arg3, arg4) == <<arg1, arg3, arg2, arg4>>

\* Color::from_rgb(r, b, g) = Self::from_rgba(r, g, b, 255).
FromRgb(arg1, arg2, arg3) == FromRgba(arg1, arg3, arg2, 255)

\* Color::from_bytes: bytes.try_into().unwrap() panics unless the slice has
\* exactly 4 bytes, and no Color is made; else the Color holds a copy.
FromBytes(bytes) == IF Len(bytes) = 4 THEN Some(bytes) ELSE None

\* Color::as_bytes: a reference to the stored array.
AsBytes(c) == c

\* The byte values and the slices the constructors are called with.
ByteChoices == {0, 10, 20, 30, 255}
SliceChoices == {<<>>, <<1, 2, 3>>, <<1, 2, 3, 4>>, <<1, 2, 3, 4, 5>>}

\* No Color constructor was called yet.
NoColorYet ==
    /\ color_call = [name |-> "none", args |-> <<>>]
    /\ color_made = None

\* Color::from_rgba(a1, a2, a3, a4)
FromRgbaCall ==
    \E a1 \in ByteChoices, a2 \in ByteChoices, a3 \in ByteChoices,
       a4 \in ByteChoices :
        /\ color_call' = [name |-> "from_rgba", args |-> <<a1, a2, a3, a4>>]
        /\ color_made' = Some(FromRgba(a1, a2, a3, a4))

\* Color::from_rgb(a1, a2, a3)
FromRgbCall ==
    \E a1 \in ByteChoices, a2 \in ByteChoices, a3 \in ByteChoices :
        /\ color_call' = [name |-> "from_rgb", args |-> <<a1, a2, a3>>]
        /\ color_made' = Some(FromRgb(a1, a2, a3))

\* Color::from_bytes(bytes)
FromBytesCall ==
    \E bytes \in SliceChoices :
        /\ color_call' = [name |-> "from_bytes", args |-> bytes]
        /\ color_made' = FromBytes(bytes)

\* The constructors, called in any order.
ColorNext ==
    \/ FromRgbaCall /\ UNCHANGED <<loop_vars, surface_vars, host_vars>>
    \/ FromRgbCall /\ UNCHANGED <<loop_vars, surface_vars, host_vars>>
    \/ FromBytesCall /\ UNCHANGED <<loop_vars, surface_vars, host_vars>>

\* The colors the model draws with.
ColorChoices == {FromRgb(10, 20, 30), FromRgba(1, 2, 3, 4)}

\* --------------------------------------------------------- PixelsSurface

\* Coordinates and pixel indices are u32 in the source.  The surfaces of the
\* model are a few pixels wide and high, so no sum or product below comes
\* near 2^32, and the arithmetic is that of the integers.

\* The frame of a new width x height surface: every byte zero.
NewFrame(w, h) == [i \in 1..(w * h * 4) |-> 0]

NoOp == [name |-> "none", x |-> 0, y |-> 0, w |-> 0, h |-> 0, color |-> <<>>]

\* A surface of the given size on which nothing was drawn yet.
SurfaceNew(w, h) ==
    /\ width = w
    /\ height = h
    /\ frame = NewFrame(w, h)
    /\ surface_pc = "ready"
    /\ op = NoOp
    /\ prev_frame = NewFrame(w, h)
    /\ set_ranges = <<>>
    /\ op_result = None
    /\ ops = 0

\* init_pixels: a surface of any of the model's sizes.
SurfaceInit ==
    \E w \in 1..MaxWidth, h \in 1..MaxHeight : SurfaceNew(w, h)

\* PixelsSurface::set_range indexes buf[range.start * 4..range.end * 4],
\* which panics unless start <= end and the end is within the frame.
SetRangeInFrame(buf, start, end) ==
    /\ start * 4 <= end * 4
    /\ end * 4 <= Len(buf)

\* PixelsSurface::set_range: every 4-byte chunk of the byte range becomes
\* the color's bytes.
SetRange(buf, start, end, color) ==
    [i \in DOMAIN buf |->
        IF start * 4 <= i - 1 /\ i - 1 < end * 4
        THEN color[((i - 1 - start * 4) % 4) + 1]
        ELSE buf[i]]

\* PixelsSurface::get: Color::from_bytes(&buf[i..i + 4]), i the byte offset
\* of pixel (x, y).
Get(buf, w, x, y) ==
    LET i == (y * w + x) * 4
    IN  <<buf[i + 1], buf[i + 2], buf[i + 3], buf[i + 4]>>

\* A slip of set: the pixel's index is taken for its byte offset.
SetOfPixelIndexAsOffset(buf, w, x, y, color) ==
    LET i == y * w + x
    IN  [buf |-> [k \in DOMAIN buf |->
                     IF i < k /\ k <= i + 4 THEN color[k - i] ELSE buf[k]],
         log |-> <<>>,
         panicked |-> FALSE]

\* PixelsSurface::set: buf[i..i + 4].copy_from_slice(color.as_bytes()), i
\* the byte offset of pixel (x, y); the slice index panics past the frame.
SetOf(buf, w, x, y, color) ==
    LET i == (y * w + x) * 4
    IN  IF i + 4 <= Len(buf)
        THEN [buf |-> [k \in DOMAIN buf |->
                         IF i < k /\ k <= i + 4 THEN color[k - i]
                                                 ELSE buf[k]],
              log |-> <<>>,
              panicked |-> FALSE]
        ELSE [buf |-> buf, log |-> <<>>, panicked |-> TRUE]

\* A slip of in_bounds: the far edges are compared with > instead of >=.
InBoundsOfEdgeIncluded(w, h, x, y) ==
    IF x < 0 \/ x > w \/ y < 0 \/ y > h
    THEN None
    ELSE Some(<<x, y>>)

\* PixelsSurface::in_bounds: None outside the surface, else the coordinates
\* cast to u32.
InBoundsOf(w, h, x, y) ==
    IF x < 0 \/ x >= w \/ y < 0 \/ y >= h
    THEN None
    ELSE Some(<<x, y>>)

\* -------------------------------------------- DrawingSurface's defaults

\* What a default method has done so far: the frame, the set_range calls
\* issued and whether one of them panicked.
Drawn(buf, log, panicked) == [buf |-> buf, log |-> log, panicked |-> panicked]

\* One self.set_range(start..end, color) on what was drawn so far.
CallSetRange(d, start, end, color) ==
    IF SetRangeInFrame(d.buf, start, end)
    THEN Drawn(SetRange(d.buf, start, end, color),
               Append(d.log, <<start, end>>), FALSE)
    ELSE Drawn(d.buf, Append(d.log, <<start, end>>), TRUE)

\* A slip of clear_screen: the range ends at height * height.
ClearScreenOfSquare(buf, w, h, color) ==
    CallSetRange(Drawn(buf, <<>>, FALSE), 0, h * h, color)

\* clear_screen: self.set_range(0..(height * width) as usize, color).
ClearScreenOf(buf, w, h, color) ==
    CallSetRange(Drawn(buf, <<>>, FALSE), 0, h * w, color)

\* A slip of filled_rect: the surface's width is taken for the rectangle's,
\* so the row's range runs on into the next row.
FilledRectRowRangeSurfaceWidth(w, y, sx, rect_w) ==
    <<y * w + sx, y * w + sx + w>>

\* filled_rect's range for row y:
\* (y * width + sx) as usize..(y * width + sx + width) as usize.
FilledRectRowRange(w, y, sx, rect_w) ==
    <<y * w + sx, y * w + sx + rect_w>>

\* filled_rect's loop, for y in sy..sy + height, from row y on; a panic of
\* set_range ends it.
RECURSIVE FilledRectRows(_, _, _, _, _, _, _)
FilledRectRows(d, w, y, y_end, sx, rect_w, color) ==
    IF y >= y_end \/ d.panicked
    THEN d
    ELSE LET r == FilledRectRowRange(w, y, sx, rect_w)
         IN  FilledRectRows(CallSetRange(d, r[1], r[2], color),
                            w, y + 1, y_end, sx, rect_w, color)

\* A slip of filled_rect: one set_range from the rectangle's first pixel to
\* its last, instead of one a row.
FilledRectOfOneRange(buf, w, sx, sy, rect_w, rect_h, color) ==
    CallSetRange(Drawn(buf, <<>>, FALSE),
                 sy * w + sx, (sy + rect_h - 1) * w + sx + rect_w, color)

\* filled_rect: the loop from row sy to row sy + height, on the frame as it
\* was at the call.
FilledRectOf(buf, w, sx, sy, rect_w, rect_h, color) ==
    FilledRectRows(Drawn(buf, <<>>, FALSE), w, sy, sy + rect_h,
                   sx, rect_w, color)

\* An operation may be applied: no earlier one panicked.
CanApply ==
    /\ surface_pc = "ready"
    /\ ops < MaxOps

\* An operation's effect d on the surface and what the model notes of it.
Applied(name, x, y, w, h, color, d, returned) ==
    /\ ops' = ops + 1
    /\ op' = [name |-> name, x |-> x, y |-> y, w |-> w, h |-> h,
              color |-> color]
    /\ prev_frame' = frame
    /\ frame' = d.buf
    /\ set_ranges' = d.log
    /\ surface_pc' = IF d.panicked THEN "panicked" ELSE "ready"
    /\ op_result' = returned
    /\ UNCHANGED <<width, height>>
    /\ UNCHANGED <<loop_vars, color_vars, host_vars>>

\* surface.clear_screen(color)
ClearScreen ==
    /\ CanApply
    /\ \E color \in ColorChoices :
        \E d \in {ClearScreenOf(frame, width, height, color)} :
            Applied("clear_screen", 0, 0, 0, 0, color, d, None)

\* surface.filled_rect(sx, sy, w, h, color), with rectangles inside the
\* surface and rectangles that leave it.
FilledRect ==
    /\ CanApply
    /\ \E sx \in 0..width, sy \in 0..height, w \in 0..width,
          h \in 0..height, color \in ColorChoices :
        \E d \in {FilledRectOf(frame, width, sx, sy, w, h, color)} :
            Applied("filled_rect", sx, sy, w, h, color, d, None)

\* surface.in_bounds(x, y), from one pixel outside the surface on each side.
InBounds ==
    /\ CanApply
    /\ \E x \in (0 - 1)..(width + 1), y \in (0 - 1)..(height + 1) :
        Applied("in_bounds", x, y, 0, 0, <<>>, Drawn(frame, <<>>, FALSE),
                InBoundsOf(width, height, x, y))

\* surface.set(x, y, color), at the surface's pixels and one past them.
Set ==
    /\ CanApply
    /\ \E x \in 0..width, y \in 0..height, color \in ColorChoices :
        \E d \in {SetOf(frame, width, x, y, color)} :
            Applied("set", x, y, 0, 0, color, d, None)

SurfaceNext ==
    \/ ClearScreen
    \/ FilledRect
    \/ InBounds
    \/ Set

\* ------------------------------------------------ run_with_tao_and_pixels

\* The host has delivered no event yet.
NoEventYet ==
    /\ event = "none"
    /\ host_pc = "waiting"
    /\ control_flow = "Poll"
    /\ handled = None
    /\ tick_mark = 0
    /\ events = 0

\* ---------------------------------------------------- PixelLoop::next_loop

\* The real times the clock may have advanced by between two ticks: nothing,
\* one nanosecond, exactly one timestep, just over it, the ceiling, just over
\* two timesteps and a quarter of a second.
ElapsedChoices ==
    {0, 1, update_timestep, update_timestep + 1, 2 * update_timestep + 1,
     DtCeiling, 250000000}

\* A slip of the escape hatch: the measured dt is used as it is.
ClampDtMissing(d) == d

\* A slip of the escape hatch: the ceiling is a second, not 100 ms.
ClampDtToSecond(d) == IF d > 10 * DtCeiling THEN 10 * DtCeiling ELSE d

\* The escape hatch: if dt > 100 ms { dt = 100 ms }.
ClampDt(d) == IF d > DtCeiling THEN DtCeiling ELSE d

\* A slip of the draining loop: the textbook accumulator >= timestep.
DrainConditionNotStrict == accumulator >= update_timestep

\* The condition of the draining loop.
DrainCondition == accumulator > update_timestep

\* A slip of run: next_loop's Err is dropped and the loop goes on.
NextLoopBeginAfterError ==
    /\ pc \in {"idle", "failed"}
    /\ ticks < MaxTicks
    /\ \E e \in ElapsedChoices :
        /\ last_time' = current_time
        /\ current_time' = current_time + e
        /\ dt' = ClampDt(current_time' - last_time')
        /\ elapsed' = e
    /\ pc' = "drain"
    /\ entry_acc' = accumulator
    /\ calls' = <<>>
    /\ render_dt' = None
    /\ render_acc' = None
    /\ added' = None
    /\ result' = "running"
    /\ ticks' = ticks + 1
    /\ UNCHANGED <<accumulator, update_timestep>>
    /\ UNCHANGED <<given_fps, total_dt, total_updates>>
    /\ UNCHANGED outside_loop_vars

\* Lines 57-66: the timestamps advance and dt is measured and clamped; run
\* calls next_loop again only after an Ok.
NextLoopBegin ==
    /\ pc = "idle"
    /\ ticks < MaxTicks
    /\ \E e \in ElapsedChoices :
        /\ last_time' = current_time
        /\ current_time' = current_time + e
        /\ dt' = ClampDt(current_time' - last_time')
        /\ elapsed' = e
    /\ pc' = "drain"
    /\ entry_acc' = accumulator
    /\ calls' = <<>>
    /\ render_dt' = None
    /\ render_acc' = None
    /\ added' = None
    /\ result' = "running"
    /\ ticks' = ticks + 1
    /\ UNCHANGED <<accumulator, update_timestep>>
    /\ UNCHANGED <<given_fps, total_dt, total_updates>>
    /\ UNCHANGED outside_loop_vars

\* Lines 68-70, update returns Ok: one timestep is consumed.
UpdateOk ==
    /\ pc = "drain"
    /\ DrainCondition
    /\ calls' = Append(calls, "update_ok")
    /\ accumulator' = accumulator - update_timestep
    /\ UNCHANGED <<current_time, last_time, update_timestep, dt, pc, elapsed,
                   entry_acc, render_dt, render_acc, added, result, ticks>>
    /\ total_updates' = total_updates + 1
    /\ UNCHANGED <<given_fps, total_dt>>
    /\ UNCHANGED outside_loop_vars

\* A slip of lines 69-70: the timestep is consumed before update's result
\* is looked at.
UpdateFailConsumes ==
    /\ pc = "drain"
    /\ DrainCondition
    /\ calls' = Append(calls, "update_err")
    /\ accumulator' = accumulator - update_timestep
    /\ pc' = "failed"
    /\ result' = "err"
    /\ UNCHANGED <<current_time, last_time, update_timestep, dt, elapsed,
                   entry_acc, render_dt, render_acc, added, ticks>>
    /\ UNCHANGED <<given_fps, total_dt, total_updates>>
    /\ UNCHANGED outside_loop_vars

\* Line 69, update returns Err: `?` returns it from next_loop, and the
\* drivers (run's `?`, run_with_tao_and_pixels' unwrap) never tick again.
UpdateFail ==
    /\ pc = "drain"
    /\ DrainCondition
    /\ calls' = Append(calls, "update_err")
    /\ pc' = "failed"
    /\ result' = "err"
    /\ UNCHANGED <<accumulator, current_time, last_time, update_timestep, dt,
                   elapsed, entry_acc, render_dt, render_acc, added, ticks>>
    /\ UNCHANGED <<given_fps, total_dt, total_updates>>
    /\ UNCHANGED outside_loop_vars

\* A slip of line 73: render is called inside the draining loop, once per
\* pass, and the loop goes on.
RenderOkInLoop ==
    /\ pc = "drain"
    /\ calls' = Append(calls, "render_ok")
    /\ render_dt' = Some(dt)
    /\ render_acc' = Some(accumulator)
    /\ pc' = IF DrainCondition THEN "drain" ELSE "accumulate"
    /\ UNCHANGED <<accumulator, current_time, last_time, update_timestep, dt,
                   elapsed, entry_acc, added, result, ticks>>
    /\ total_dt' = total_dt + (IF elapsed > DtCeiling THEN DtCeiling
                                                   ELSE elapsed)
    /\ UNCHANGED <<given_fps, total_updates>>
    /\ UNCHANGED outside_loop_vars

\* A slip of line 73: render is handed the accumulator's remainder.
RenderOkPassesRemainder ==
    /\ pc = "drain"
    /\ ~DrainCondition
    /\ calls' = Append(calls, "render_ok")
    /\ render_dt' = Some(accumulator)
    /\ render_acc' = Some(accumulator)
    /\ pc' = "accumulate"
    /\ UNCHANGED <<accumulator, current_time, last_time, update_timestep, dt,
                   elapsed, entry_acc, added, result, ticks>>
    /\ total_dt' = total_dt + (IF elapsed > DtCeiling THEN DtCeiling
                                                   ELSE elapsed)
    /\ UNCHANGED <<given_fps, total_updates>>
    /\ UNCHANGED outside_loop_vars

\* Line 73, the loop is left and render returns Ok.
RenderOk ==
    /\ pc = "drain"
    /\ ~DrainCondition
    /\ calls' = Append(calls, "render_ok")
    /\ render_dt' = Some(dt)
    /\ render_acc' = Some(accumulator)
    /\ pc' = "accumulate"
    /\ UNCHANGED <<accumulator, current_time, last_time, update_timestep, dt,
                   elapsed, entry_acc, added, result, ticks>>
    /\ total_dt' = total_dt + (IF elapsed > DtCeiling THEN DtCeiling
                                                   ELSE elapsed)
    /\ UNCHANGED <<given_fps, total_updates>>
    /\ UNCHANGED outside_loop_vars

\* A slip of lines 73-75: dt is accumulated before render is called, as in
\* the textbook loop, so a failing render leaves it in the accumulator.
RenderFailAfterAccumulate ==
    /\ pc = "drain"
    /\ ~DrainCondition
    /\ calls' = Append(calls, "render_err")
    /\ render_dt' = Some(dt)
    /\ render_acc' = Some(accumulator)
    /\ accumulator' = accumulator + dt
    /\ pc' = "failed"
    /\ result' = "err"
    /\ UNCHANGED <<current_time, last_time, update_timestep, dt, elapsed,
                   entry_acc, added, ticks>>
    /\ UNCHANGED <<given_fps, total_dt, total_updates>>
    /\ UNCHANGED outside_loop_vars

\* Line 73, the loop is left and render returns Err.
RenderFail ==
    /\ pc = "drain"
    /\ ~DrainCondition
    /\ calls' = Append(calls, "render_err")
    /\ render_dt' = Some(dt)
    /\ render_acc' = Some(accumulator)
    /\ pc' = "failed"
    /\ result' = "err"
    /\ UNCHANGED <<accumulator, current_time, last_time, update_timestep, dt,
                   elapsed, entry_acc, added, ticks>>
    /\ UNCHANGED <<given_fps, total_dt, total_updates>>
    /\ UNCHANGED outside_loop_vars

\* A slip of line 75: the measured time is accumulated, not the clamped dt.
AccumulateUnclamped ==
    /\ pc = "accumulate"
    /\ accumulator' = accumulator + (current_time - last_time)
    /\ added' = Some(accumulator' - accumulator)
    /\ pc' = "idle"
    /\ result' = "ok"
    /\ UNCHANGED <<current_time, last_time, update_timestep, dt, elapsed,
                   entry_acc, calls, render_dt, render_acc, ticks>>
    /\ UNCHANGED <<given_fps, total_dt, total_updates>>
    /\ UNCHANGED outside_loop_vars

\* A slip of line 75: the frame's dt is assigned, not added.
AccumulateOverwrites ==
    /\ pc = "accumulate"
    /\ accumulator' = dt
    /\ added' = Some(accumulator' - accumulator)
    /\ pc' = "idle"
    /\ result' = "ok"
    /\ UNCHANGED <<current_time, last_time, update_timestep, dt, elapsed,
                   entry_acc, calls, render_dt, render_acc, ticks>>
    /\ UNCHANGED <<given_fps, total_dt, total_updates>>
    /\ UNCHANGED outside_loop_vars

\* Lines 75-76: the frame's dt is accumulated and next_loop returns Ok.
Accumulate ==
    /\ pc = "accumulate"
    /\ accumulator' = accumulator + dt
    /\ added' = Some(accumulator' - accumulator)
    /\ pc' = "idle"
    /\ result' = "ok"
    /\ UNCHANGED <<current_time, last_time, update_timestep, dt, elapsed,
                   entry_acc, calls, render_dt, render_acc, ticks>>
    /\ UNCHANGED <<given_fps, total_dt, total_updates>>
    /\ UNCHANGED outside_loop_vars

Next ==
    \/ NextLoopBegin
    \/ UpdateOk
    \/ UpdateFail
    \/ RenderOk
    \/ RenderFail
    \/ Accumulate

\* The loop alone, on a surface of one pixel that nothing draws on.
Init == LoopInit /\ SurfaceNew(1, 1) /\ NoColorYet /\ NoEventYet

Spec == Init /\ [][Next]_vars

\* The surface alone, owned by a loop that has not ticked yet.
SurfaceSpecInit ==
    /\ SurfaceInit
    /\ New(120, 0, 0)
    /\ NoTickYet
    /\ NoColorYet
    /\ NoEventYet

SurfaceSpec == SurfaceSpecInit /\ [][SurfaceNext]_vars

\* The Color constructors alone.
ColorSpecInit ==
    /\ SurfaceNew(1, 1)
    /\ New(120, 0, 0)
    /\ NoTickYet
    /\ NoColorYet
    /\ NoEventYet

ColorSpec == ColorSpecInit /\ [][ColorNext]_vars

\* ------------------------------------ run_with_tao_and_pixels' closure

\* The events the host delivers while it runs: the frame-available event,
\* the window's close request, another window event and another event.
EventChoices == {"MainEventsCleared", "CloseRequested", "Resized", "NewEvents"}

\* event_loop.run calls the closure with the next event; once the control
\* flow is Exit the host delivers LoopDestroyed and nothing after it.
HostDeliver ==
    /\ host_pc = "waiting"
    /\ events < MaxEvents
    /\ \E ev \in IF control_flow = "Exit" THEN {"LoopDestroyed"}
                                          ELSE EventChoices :
        event' = ev
    /\ host_pc' = "handler"
    /\ handled' = None
    /\ tick_mark' = ticks
    /\ events' = events + 1
    /\ UNCHANGED control_flow
    /\ UNCHANGED <<loop_vars, surface_vars, color_vars>>

\* handle_event(state, surface, window, &event) returned Ok.
HandleEventOk ==
    /\ host_pc = "handler"
    /\ handled' = Some(event)
    /\ host_pc' = "match"
    /\ UNCHANGED <<event, control_flow, tick_mark, events>>
    /\ UNCHANGED <<loop_vars, surface_vars, color_vars>>

\* handle_event returned Err: the unwrap panics.
HandleEventFail ==
    /\ host_pc = "handler"
    /\ handled' = Some(event)
    /\ host_pc' = "panicked"
    /\ UNCHANGED <<event, control_flow, tick_mark, events>>
    /\ UNCHANGED <<loop_vars, surface_vars, color_vars>>

\* A slip of the match: every event but the close request ticks.
TickDueUnlessClose == event # "CloseRequested"

\* The match arm Event::MainEventsCleared.
TickDue == event = "MainEventsCleared"

\* Event::MainEventsCleared => pixel_loop.next_loop() is called.
MatchMainEventsCleared ==
    /\ host_pc = "match"
    /\ TickDue
    /\ host_pc' = "ticking"
    /\ UNCHANGED <<event, control_flow, handled, tick_mark, events>>
    /\ UNCHANGED <<loop_vars, surface_vars, color_vars>>

\* WindowEvent::CloseRequested => *control_flow = ControlFlow::Exit.
MatchCloseRequested ==
    /\ host_pc = "match"
    /\ ~TickDue
    /\ event = "CloseRequested"
    /\ control_flow' = "Exit"
    /\ host_pc' = "waiting"
    /\ UNCHANGED <<event, handled, tick_mark, events>>
    /\ UNCHANGED <<loop_vars, surface_vars, color_vars>>

\* The arms _ => {}: the closure returns; LoopDestroyed was the last event.
MatchOther ==
    /\ host_pc = "match"
    /\ ~TickDue
    /\ event # "CloseRequested"
    /\ host_pc' = IF event = "LoopDestroyed" THEN "exited" ELSE "waiting"
    /\ UNCHANGED <<event, control_flow, handled, tick_mark, events>>
    /\ UNCHANGED <<loop_vars, surface_vars, color_vars>>

\* The call of next_loop in the MainEventsCleared arm begins.
TaoNextLoopBegin ==
    /\ host_pc = "ticking"
    /\ ticks = tick_mark
    /\ NextLoopBegin

\* next_loop returned Ok: the closure returns.
TaoNextLoopOk ==
    /\ host_pc = "ticking"
    /\ ticks = tick_mark + 1
    /\ pc = "idle"
    /\ host_pc' = "waiting"
    /\ UNCHANGED <<event, control_flow, handled, tick_mark, events>>
    /\ UNCHANGED <<loop_vars, surface_vars, color_vars>>

\* next_loop returned Err: the unwrap panics.
TaoNextLoopErr ==
    /\ host_pc = "ticking"
    /\ pc = "failed"
    /\ host_pc' = "panicked"
    /\ UNCHANGED <<event, control_flow, handled, tick_mark, events>>
    /\ UNCHANGED <<loop_vars, surface_vars, color_vars>>

TaoNext ==
    \/ HostDeliver
    \/ HandleEventOk
    \/ HandleEventFail
    \/ MatchMainEventsCleared
    \/ MatchCloseRequested
    \/ MatchOther
    \/ TaoNextLoopBegin
    \/ UpdateOk
    \/ UpdateFail
    \/ RenderOk
    \/ RenderFail
    \/ Accumulate
    \/ TaoNextLoopOk
    \/ TaoNextLoopErr

\* PixelLoop::new(120, ...) inside run_with_tao_and_pixels, before the
\* host's first event.
TaoSpecInit ==
    /\ \E gap \in {0, 1} : New(120, 0, gap)
    /\ NoTickYet
    /\ SurfaceNew(1, 1)
    /\ NoColorYet
    /\ NoEventYet

TaoSpec == TaoSpecInit /\ [][TaoNext]_vars

\* ------------------------------------------- run's loop, without an end

\* The rates of the endless run: a timestep of 10 ms, below the ceiling, and
\* one of 125 ms, above it.
LiveFpsChoices == {8, 100}

\* The real times between two ticks of the endless run: every one positive,
\* the least 5 ms, the largest above the ceiling.
LiveElapsedChoices == {5000000, 10000000, 15000000, DtCeiling, 250000000}

\* Lines 57-66 in the endless run. next_loop uses the two Instants only for
\* their difference, so the clock's origin is moved to last_time at every
\* tick, and the sums kept for the whole run restart from the accumulator:
\* the run has finitely many states.
LiveNextLoopBegin ==
    /\ pc = "idle"
    /\ \E e \in LiveElapsedChoices :
        /\ last_time' = 0
        /\ current_time' = e
        /\ dt' = ClampDt(current_time' - last_time')
        /\ elapsed' = e
    /\ pc' = "drain"
    /\ entry_acc' = accumulator
    /\ calls' = <<>>
    /\ render_dt' = None
    /\ render_acc' = None
    /\ added' = None
    /\ result' = "running"
    /\ total_dt' = accumulator
    /\ total_updates' = 0
    /\ UNCHANGED <<accumulator, update_timestep, given_fps, ticks>>
    /\ UNCHANGED outside_loop_vars

\* The endless run: update and render never fail.
LiveNext ==
    \/ LiveNextLoopBegin
    \/ UpdateOk
    \/ RenderOk
    \/ Accumulate

LiveInit ==
    /\ \E update_fps \in LiveFpsChoices : New(update_fps, 0, 0)
    /\ NoTickYet
    /\ SurfaceNew(1, 1)
    /\ NoColorYet
    /\ NoEventYet

\* run's loop has no exit but an error and the callbacks return, so the
\* next step of the run is always taken.
LiveSpec == LiveInit /\ [][LiveNext]_vars /\ WF_vars(LiveNext)

\* ------------------------------------------------- the loop's properties

Min(a, b) == IF a <= b THEN a ELSE b

\* How many of this tick's calls were `what`.
NumCalls(what) == Cardinality({i \in DOMAIN calls : calls[i] = what})

IsRender(c) == c \in {"render_ok", "render_err"}

LastCall == IF calls = <<>> THEN "none" ELSE calls[Len(calls)]

\* The draining of this tick ran to its end: render was reached.
Drained == render_acc # None

\* The smallest k >= 0 with a - k*s <= s.
SmallestK(a, s) ==
    CHOOSE k \in 0..(a \div s) :
        /\ a - k * s <= s
        /\ \A j \in 0..(k - 1) : a - j * s > s

\* C1: in a tick whose updates all succeed, update is invoked exactly k
\* times, k the smallest k >= 0 with a - k*s <= s, a the accumulator at
\* tick entry and s the timestep; with a <= s (a = s included) it is
\* invoked zero times.
C1_UpdateCount ==
    Drained =>
        /\ NumCalls("update_err") = 0
        /\ NumCalls("update_ok") = SmallestK(entry_acc, update_timestep)
        /\ (entry_acc <= update_timestep => NumCalls("update_ok") = 0)

\* A tick entered with the accumulator exactly at the timestep drained
\* without an update.
C1_Witness ==
    /\ Drained
    /\ entry_acc = update_timestep
    /\ NumCalls("update_ok") = 0

\* C2: the dt handed to render and the amount added to the accumulator at
\* the end of the tick are one value, min(e, 100 ms) for the real elapsed
\* time e, so neither exceeds 100 ms.
C2_ClampedDt ==
    /\ render_dt # None =>
           /\ Val(render_dt) = Min(elapsed, DtCeiling)
           /\ Val(render_dt) <= DtCeiling
    /\ added # None =>
           /\ Val(added) = Val(render_dt)
           /\ Val(added) = Min(elapsed, DtCeiling)
           /\ Val(added) <= DtCeiling

\* A quarter of a second elapsed and 100 ms were rendered and accumulated.
C2_Witness ==
    /\ result = "ok"
    /\ elapsed = 250000000
    /\ Val(render_dt) = DtCeiling
    /\ Val(added) = DtCeiling

\* C3: a tick that returns success invoked render exactly once, after every
\* update of the tick; in no tick does a call follow a render call.
C3_OneRenderLast ==
    /\ \A i \in DOMAIN calls : IsRender(calls[i]) => i = Len(calls)
    /\ result = "ok" =>
           /\ NumCalls("render_ok") = 1
           /\ NumCalls("render_err") = 0
           /\ calls[Len(calls)] = "render_ok"
           /\ \A i \in 1..(Len(calls) - 1) : calls[i] = "update_ok"

\* A successful tick with at least two updates before its render.
C3_Witness ==
    /\ result = "ok"
    /\ NumCalls("update_ok") >= 2
    /\ LastCall = "render_ok"

\* C4: when an update fails, next_loop returns the error at once: no render
\* and no further update in the tick, dt not accumulated, and the timestep
\* consumed once per update that succeeded before, not for the failing one.
C4_UpdateFailure ==
    NumCalls("update_err") > 0 =>
        /\ NumCalls("update_err") = 1
        /\ LastCall = "update_err"
        /\ NumCalls("render_ok") + NumCalls("render_err") = 0
        /\ result = "err"
        /\ pc = "failed"
        /\ added = None
        /\ accumulator = entry_acc - update_timestep * NumCalls("update_ok")
        /\ ~ENABLED (UpdateOk \/ UpdateFail \/ RenderOk \/ RenderFail
                       \/ Accumulate)

\* An update failed after another had succeeded in the same tick.
C4_Witness ==
    /\ LastCall = "update_err"
    /\ NumCalls("update_ok") >= 1
    /\ dt > 0

\* C5: when render fails, next_loop returns the error and does nothing more:
\* dt is not accumulated and the accumulator is what the draining left.
C5_RenderFailure ==
    NumCalls("render_err") > 0 =>
        /\ LastCall = "render_err"
        /\ result = "err"
        /\ pc = "failed"
        /\ added = None
        /\ accumulator = Val(render_acc)
        /\ accumulator = entry_acc - update_timestep * NumCalls("update_ok")
        /\ ~ENABLED (UpdateOk \/ UpdateFail \/ RenderOk \/ RenderFail
                       \/ Accumulate)

\* render failed in a tick that measured a positive dt, after an update.
C5_Witness ==
    /\ LastCall = "render_err"
    /\ dt > 0
    /\ NumCalls("update_ok") >= 1

\* C6 as stated: after every completed tick the accumulator is below two
\* timesteps.
C6_BelowTwoTimesteps ==
    result = "ok" => accumulator < 2 * update_timestep

\* C6, amended: what the draining leaves is at most one timestep, and a
\* completed tick adds its clamped dt to that, so that the accumulator is
\* then at most one timestep plus min(e, 100 ms).
C6_RemainderPlusDt ==
    /\ Drained => (0 <= Val(render_acc) /\ Val(render_acc) <= update_timestep)
    /\ result = "ok" =>
           /\ 0 <= accumulator
           /\ accumulator <= update_timestep + Min(elapsed, DtCeiling)
           /\ accumulator <= update_timestep + DtCeiling

\* A completed tick left two timesteps or more in the accumulator.
C6_Witness ==
    /\ result = "ok"
    /\ accumulator >= 2 * update_timestep
    /\ Val(render_acc) > 0

\* C7 as stated: the dt passed to render is the remainder left in the
\* accumulator once the tick's updates are drained.
C7_RenderDtIsRemainder ==
    render_dt # None => Val(render_dt) = Val(render_acc)

\* C7, amended: the dt passed to render is the frame's clamped delta, the
\* time between the last two ticks cut to 100 ms, which the accumulator
\* does not hold yet; the remainder the draining left is the entry value
\* less one timestep per update, and dt is added to it after render.
C7_RenderDtIsFrameDelta ==
    /\ render_dt # None =>
           /\ Val(render_dt) = Min(current_time - last_time, DtCeiling)
           /\ Val(render_acc) = entry_acc
                             - update_timestep * NumCalls("update_ok")
    /\ result = "ok" => accumulator = Val(render_acc) + Val(render_dt)

\* render was handed a dt that differs from the drained remainder, both
\* positive.
C7_Witness ==
    /\ render_dt # None
    /\ Val(render_acc) > 0
    /\ Val(render_dt) > 0
    /\ Val(render_dt) # Val(render_acc)

\* The updates invoked in this tick, failed one included.
NumUpdates == NumCalls("update_ok") + NumCalls("update_err")

CeilDiv(a, b) == (a + b - 1) \div b

C16_RunStopsAtFirstError ==
    /\ (pc = "failed") <=> (result = "err")
    /\ result = "err" =>
           /\ LastCall \in {"update_err", "render_err"}
           /\ NumCalls("update_err") + NumCalls("render_err") = 1
           /\ ~ENABLED Next
    /\ result # "err" =>
           NumCalls("update_err") + NumCalls("render_err") = 0
    /\ (result = "ok" /\ ticks < MaxTicks) =>
           (pc = "idle" /\ ENABLED NextLoopBegin)

\* run returned an error in its third tick or later.
C16_Witness ==
    /\ result = "err"
    /\ pc = "failed"
    /\ ticks >= 3

\* C18: whatever the elapsed times of this tick and of the earlier ones, one
\* tick invokes update at most ceil(100 ms / update_timestep) times, which
\* is 13 times at 120 updates a second.
C18_UpdatesPerTickBounded ==
    given_fps > 0 =>
        /\ NumUpdates <= CeilDiv(DtCeiling, update_timestep)
        /\ (given_fps = 120 => NumUpdates <= 13)

\* A tick at 120 updates a second that invoked update 13 times.
C18_Witness ==
    /\ given_fps = 120
    /\ NumUpdates = 13
    /\ elapsed >= DtCeiling

\* C19: at every tick boundary the accumulator is the sum of the clamped dt
\* of the ticks whose render succeeded less update_timestep times the number
\* of updates that succeeded; it is never negative.
C19_TimeConservation ==
    /\ accumulator >= 0
    /\ pc \in {"idle", "failed"} =>
           accumulator = total_dt - update_timestep * total_updates

\* A tick failed after ticks that rendered and updates that succeeded.
C19_Witness ==
    /\ pc = "failed"
    /\ ticks >= 3
    /\ total_updates >= 2
    /\ total_dt > 0
    /\ accumulator > 0

\* A tick of the loop is under way.
InTick == pc \in {"drain", "accumulate"}

\* The closure has returned from the event delivered last.
EventDone == events > 0 /\ host_pc \in {"waiting", "exited"}

\* C15: in run_with_tao_and_pixels the handler is invoked with every event
\* the host delivers and has returned before the event is inspected;
\* next_loop runs exactly once for an event MainEventsCleared, after its
\* handler call, and for no other event; CloseRequested sets the control
\* flow to Exit and runs no tick.
C15_HandlerThenTick ==
    /\ host_pc = "handler" => (handled = None /\ ticks = tick_mark)
    /\ host_pc \in {"match", "ticking"} => handled = Some(event)
    /\ ticks \in {tick_mark, tick_mark + 1}
    /\ (InTick \/ ticks # tick_mark) =>
           /\ event = "MainEventsCleared"
           /\ handled = Some("MainEventsCleared")
           /\ ticks = tick_mark + 1
    /\ InTick => host_pc = "ticking"
    /\ EventDone =>
           /\ handled = Some(event)
           /\ (event = "MainEventsCleared") <=> (ticks = tick_mark + 1)
           /\ event = "CloseRequested" =>
                  (control_flow = "Exit" /\ ticks = tick_mark)
    /\ control_flow = "Exit" => event \in {"CloseRequested", "LoopDestroyed"}

\* After an event that ticked, a close request was handled and set the
\* control flow to Exit.
C15_Witness ==
    /\ EventDone
    /\ event = "CloseRequested"
    /\ handled = Some("CloseRequested")
    /\ control_flow = "Exit"
    /\ ticks >= 1
    /\ ticks = tick_mark

\* C20: in an endless run in which update and render never fail and every
\* tick's clamped dt is at least 5 ms, update is invoked again and again:
\* from every state some later tick invokes update.
C20_UpdateAgainAndAgain == []<>(LastCall = "update_ok")

\* At 8 updates a second an update was invoked in a tick of 5 ms, after
\* ticks that invoked none.
C20_Witness ==
    /\ given_fps = 8
    /\ dt = 5000000
    /\ entry_acc > update_timestep
    /\ LastCall = "update_ok"

\* ---------------------------------------------- the surface's properties

\* The pixels of the surface.
Columns == 0..(width - 1)
Rows == 0..(height - 1)

\* The last operation was filled_rect with a rectangle inside the surface.
RectInSurface ==
    /\ op.name = "filled_rect"
    /\ op.x + op.w <= width
    /\ op.y + op.h <= height

\* Pixel (x, y) lies in the rectangle of the last filled_rect.
InRect(x, y) ==
    /\ op.x <= x /\ x < op.x + op.w
    /\ op.y <= y /\ y < op.y + op.h

\* C8: after filled_rect(sx, sy, w, h, c) with sx + w <= width and
\* sy + h <= height (w or h may be 0), every pixel of the rectangle holds c
\* and every other pixel holds what it held before the call.
C8_FilledRectExact ==
    RectInSurface =>
        /\ surface_pc = "ready"
        /\ DOMAIN frame = DOMAIN prev_frame
        /\ \A x \in Columns, y \in Rows :
               Get(frame, width, x, y) =
                   IF InRect(x, y) THEN op.color
                                   ELSE Get(prev_frame, width, x, y)

\* A rectangle of two rows that touches neither the left nor the right edge
\* was filled.
C8_Witness ==
    /\ RectInSurface
    /\ op.x > 0
    /\ op.w > 0
    /\ op.x + op.w < width
    /\ op.h > 1
    /\ frame # prev_frame

\* C9: clear_screen(c) issues exactly one set_range call, of the range
\* 0 .. width*height, and afterwards get(x, y) returns c for every pixel.
C9_ClearScreen ==
    op.name = "clear_screen" =>
        /\ surface_pc = "ready"
        /\ set_ranges = << <<0, width * height>> >>
        /\ \A x \in Columns, y \in Rows :
               Get(frame, width, x, y) = op.color

\* A surface wider than high, of more than one row, was cleared.
C9_Witness ==
    /\ op.name = "clear_screen"
    /\ width > height
    /\ height > 1
    /\ frame # prev_frame

\* C10: in_bounds(x, y) returns the pair (x, y) exactly when 0 <= x < width
\* and 0 <= y < height, and absence otherwise, for negative coordinates and
\* for x = width or y = height too.
C10_InBounds ==
    op.name = "in_bounds" =>
        /\ (op.x \in Columns /\ op.y \in Rows) =>
               op_result = Some(<<op.x, op.y>>)
        /\ ~(op.x \in Columns /\ op.y \in Rows) => op_result = None
        /\ (op.x < 0 \/ op.y < 0) => op_result = None
        /\ (op.x = width \/ op.y = height) => op_result = None
        /\ frame = prev_frame

\* in_bounds was asked about x = width in a row of the surface and returned
\* absence.
C10_Witness ==
    /\ op.name = "in_bounds"
    /\ op.x = width
    /\ op.y \in Rows
    /\ op_result = None

\* The surface row that holds the pixel of linear index i.
RowOf(i) == i \div width

\* C17: filled_rect(sx, sy, w, h, c) with sx + w <= width and
\* sy + h <= height issues exactly h set_range calls, one for each row y
\* from sy to sy + h - 1 in increasing y, each with the range from
\* y * width + sx to y * width + sx + w (exclusive); no range holds linear
\* indices of two rows.
C17_OneRangePerRow ==
    RectInSurface =>
        /\ Len(set_ranges) = op.h
        /\ \A i \in 1..Len(set_ranges) :
               LET y == op.y + i - 1
               IN  set_ranges[i] =
                       <<y * width + op.x, y * width + op.x + op.w>>
        /\ \A i \in 1..Len(set_ranges) :
               \A k, l \in set_ranges[i][1]..(set_ranges[i][2] - 1) :
                   RowOf(k) = RowOf(l)

\* Two rows were filled up to the right edge of a surface at least two
\* pixels wide, starting right of the left edge.
C17_Witness ==
    /\ RectInSurface
    /\ op.h = 2
    /\ op.x > 0
    /\ op.w > 1
    /\ op.x + op.w = width
    /\ Len(set_ranges) = 2

\* C11: for an in-bounds (x, y), set(x, y, c) followed by get(x, y) returns
\* c's 4 bytes; the pixel is the 4 bytes at offset (y*width + x) * 4, and
\* the set changes no other byte of the frame.
C11_SetGetRoundTrip ==
    (op.name = "set" /\ op.x \in Columns /\ op.y \in Rows) =>
        /\ surface_pc = "ready"
        /\ Get(frame, width, op.x, op.y) = op.color
        /\ DOMAIN frame = DOMAIN prev_frame
        /\ \A k \in DOMAIN frame :
               LET offset == (op.y * width + op.x) * 4
               IN  frame[k] = IF offset < k /\ k <= offset + 4
                              THEN op.color[k - offset]
                              ELSE prev_frame[k]

\* A pixel off the first row and the first column was set.
C11_Witness ==
    /\ op.name = "set"
    /\ op.x \in Columns /\ op.x > 0
    /\ op.y \in Rows /\ op.y > 0
    /\ Get(frame, width, op.x, op.y) # Get(prev_frame, width, op.x, op.y)

\* ------------------------------------------------ the Color's properties

\* C12: from_rgba called with the arguments r, g, b, a in that order yields
\* a Color whose as_bytes() is [r, g, b, a].
C12_FromRgbaInOrder ==
    color_call.name = "from_rgba" =>
        AsBytes(Val(color_made)) = color_call.args

\* C13: from_rgb(p1, p2, p3) yields the bytes of from_rgba(p1, p2, p3, 255).
C13_FromRgbIsFromRgba ==
    color_call.name = "from_rgb" =>
        AsBytes(Val(color_made)) =
            AsBytes(FromRgba(color_call.args[1], color_call.args[2],
                             color_call.args[3], 255))

============================================================================
